---- MODULE Spec2Model ----
(***************************************************************************)
(* bladerf-adsb: the acquisition loop of produce(), the frame extraction   *)
(* it performs on each 4096-byte buffer, the mpsc channel and the delivery *)
(* loop of main() (src/src/main.rs), over the BladeRFDevice calls of       *)
(* src/bladerf/src/lib.rs.                                                 *)
(*                                                                         *)
(* A record (Rust String) is the sequence of its ASCII codes, which is     *)
(* what a.as_bytes() hands to stream.write.  The sample buffer `messages`  *)
(* ([u8; 4096]) is stored sparsely: a function from the indices of its     *)
(* non-zero bytes to their values, every other byte being 0.               *)
(*                                                                         *)
(* Each thread moves in steps that hold at most one operation another      *)
(* thread can see: a load or store of the run flag, a channel send or      *)
(* receive, a device call, a socket call.  A panic of main ends the        *)
(* process; a panic of produce unwinds that thread only and drops sender.  *)
(* message_count is a u64 and cannot wrap within the runs considered.      *)
(***************************************************************************)
EXTENDS Integers, Sequences, FiniteSets, TLC

(* ---------------------------------------------------------------------- *)
(* Program constants                                                        *)
(* ---------------------------------------------------------------------- *)
BufLen == 4096
SlotWidth == 16
ShortLen == 7
LongLen == 14

(* ---------------------------------------------------------------------- *)
(* Bounds of the model                                                      *)
(* ---------------------------------------------------------------------- *)
\* hardware reads the acquisition loop may issue in one run
MaxReads == 2
\* deliveries of the shutdown signal (Ctrl-C) in one run
MaxSignals == 2
\* bytes accepted by a short stream.write
ShortWrite == 3

NumSlots == BufLen \div SlotWidth
LastSlot == BufLen - SlotWidth

(* ---------------------------------------------------------------------- *)
(* The sample buffer                                                        *)
(* ---------------------------------------------------------------------- *)
\* messages[idx]
Byte(buf, idx) == IF idx \in DOMAIN buf THEN buf[idx] ELSE 0

\* let mut messages: [u8; 4096] = [0; 4096]
ZeroBuf == [idx \in {} |-> 0]

\* a slot at offset off: first byte b0, second byte b1, bytes off+2.. = pay
SlotAt(off, b0, b1, pay) ==
  [idx \in {off, off + 1} \cup {off + 1 + k : k \in 1..Len(pay)} |->
     IF idx = off THEN b0
     ELSE IF idx = off + 1 THEN b1
     ELSE pay[idx - off - 1]]

ShortPay == <<93, 76, 162, 27, 88, 27, 50>>
LongPay == <<141, 76, 162, 27, 88, 27, 50, 1, 35, 69, 103, 137, 171, 255>>
JunkPay == <<255, 255, 255, 255, 255, 255, 255, 255, 255, 255, 255, 255, 255, 255>>

\* the bursts bladerf_sync_rx may deliver
Bursts ==
  { ZeroBuf,
    SlotAt(0, 1, 0, ShortPay) @@ SlotAt(SlotWidth, 254, 7, JunkPay)
       @@ SlotAt(LastSlot, 3, 9, LongPay),
    SlotAt(2 * SlotWidth, 255, 0, <<0, 0, 0, 0, 0, 0, 0, 17, 34>>) }

(* ---------------------------------------------------------------------- *)
(* Frame extraction and rendering (produce, the body of the for loop)       *)
(* ---------------------------------------------------------------------- *)
\* SlotValid that takes any non-zero first byte
SlotValidNonZero(buf, off) == Byte(buf, off) # 0

\* (messages[i] & 0x01) == 1
SlotValid(buf, off) == Byte(buf, off) % 2 = 1

\* FrameEnd that tests bit 0x80 of the slot's second byte
FrameEndSecondByte(buf, off) ==
  IF (Byte(buf, off + 1) \div 128) % 2 = 1 THEN LongLen ELSE ShortLen

\* if (messages[i + 2] & 0x80) == 0x80 { end = 14 } else { end = 7 }
FrameEnd(buf, off) ==
  IF (Byte(buf, off + 2) \div 128) % 2 = 1 THEN LongLen ELSE ShortLen

\* HexDigit of format!("{:X}")
HexDigitUpper(n) == IF n < 10 THEN 48 + n ELSE 55 + n

\* one digit of format!("{:x}")
HexDigit(n) == IF n < 10 THEN 48 + n ELSE 87 + n

\* Hex02 of format!("{:x}"): no leading zero
Hex02NoPad(b) ==
  IF b < 16 THEN <<HexDigit(b)>> ELSE <<HexDigit(b \div 16), HexDigit(b % 16)>>

\* format!("{:02x}", b)
Hex02(b) == <<HexDigit(b \div 16), HexDigit(b % 16)>>

\* FrameIdx when the frame is taken to start at the slot's fourth byte
FrameIdxShifted(off, k) == off + 3 + k

\* the index in messages[i as usize + 2 + k as usize]
FrameIdx(off, k) == off + 2 + k

\* while k < end { ascii_buf.push_str(&format!("{:02x}", messages[i+2+k])); k += 1 }
RECURSIVE PushHex(_, _, _, _, _)
PushHex(buf, off, k, end, acc) ==
  IF k < end
    THEN PushHex(buf, off, k + 1, end, acc \o Hex02(Byte(buf, FrameIdx(off, k))))
    ELSE acc

\* AsciiBuf whose length is the one chosen for the buffer's first slot
AsciiBufFirstEnd(buf, off) ==
  PushHex(buf, off, 0, FrameEnd(buf, 0), <<42>>) \o <<59, 10>>

\* ascii_buf = String::from("*"); ...; ascii_buf.push_str(";\n")
AsciiBuf(buf, off) ==
  PushHex(buf, off, 0, FrameEnd(buf, off), <<42>>) \o <<59, 10>>

\* what one iteration of the for loop contributes for the slot at off
SlotRecords(buf, off) ==
  IF SlotValid(buf, off) THEN <<AsciiBuf(buf, off)>> ELSE <<>>

\* the records of the iterations i = lo, lo + 16, .., hi in ascending order
\* (the range is halved so that the evaluation stays shallow)
RECURSIVE ExtractRange(_, _, _)
ExtractRange(buf, lo, hi) ==
  IF lo > hi THEN <<>>
  ELSE IF lo = hi THEN SlotRecords(buf, lo)
  ELSE LET mid == lo + SlotWidth * (((hi - lo) \div SlotWidth) \div 2)
       IN  ExtractRange(buf, lo, mid) \o ExtractRange(buf, mid + SlotWidth, hi)

\* the records of one whole buffer: for i in (0..4096).step_by(16)
Extract(buf) == ExtractRange(buf, 0, LastSlot)

(* ---------------------------------------------------------------------- *)
(* State                                                                    *)
(* ---------------------------------------------------------------------- *)
VARIABLES
  remote,         \* cli.remote
  running,        \* Arc<AtomicBool>
  handlerSet,     \* ctrlc::set_handler has installed the closure
  stream,         \* Option<TcpStream>: "None" or "Some"
  mainPc,         \* position of main
  prodPc,         \* position of the produce thread
  chan,           \* the mpsc channel's queue
  a,              \* the record rx.recv() returned
  bytes_written,  \* result of stream.write
  messages,       \* the sample buffer
  i,              \* loop variable of the for loop
  message_count,  \* frame counter
  \* history
  hwLog,          \* device calls, in order
  sentLog,        \* records passed to sender.send, in order
  writeLog,       \* records passed to stream.write, in order
  bufSent,        \* records sent from the buffer in hand
  slotsScanned,   \* slots examined in the buffer in hand
  countAtRead,    \* message_count when the buffer in hand was read
  reads,          \* hardware reads issued
  connects,       \* TcpStream::connect calls
  stores,         \* stores to the run flag by the handler
  flagReads,      \* loads of the run flag
  stopPhase,      \* where produce was when the flag first became false
  readsAtStop,    \* hardware reads issued when the flag first became false
  warnings,       \* warn! lines of the short-write branch
  shortWrites,    \* stream.write results smaller than the record
  flushes,        \* stream.flush calls
  mainFailure,    \* the failed call that made main panic, or "none"
  prodFailure,    \* the failed call that made produce panic, or "none"
  walk            \* the iterations of the for loop taken one at a time

vars == <<remote, running, handlerSet, stream, mainPc, prodPc, chan, a,
          bytes_written, messages, i, message_count, hwLog, sentLog,
          writeLog, bufSent, slotsScanned, countAtRead, reads, connects,
          stores, flagReads, stopPhase, readsAtStop, warnings, shortWrites, flushes,
          mainFailure, prodFailure, walk>>

\* what produce never writes (the channel apart)
mainVars == <<remote, running, handlerSet, stream, mainPc, a, bytes_written,
              writeLog, connects, stores, stopPhase, readsAtStop, warnings, shortWrites,
              flushes, mainFailure>>

\* what main and the handler never write (the channel apart)
prodVars == <<prodPc, messages, i, message_count, hwLog, sentLog, bufSent,
              slotsScanned, countAtRead, reads, flagReads, prodFailure>>

NoRec == [rec |-> <<>>, src |-> <<0, 0>>]

\* main has returned or panicked: the process, with every thread, is gone
Exited == mainPc \in {"returned", "panicked"}

\* SenderDropped when main keeps a clone of tx alive
SenderKeptByMain == FALSE

\* SenderDropped when produce drops its Sender as it leaves the loop
SenderDroppedAtLoopExit ==
  prodPc \in {"disable", "close", "returned", "panicked"}

\* produce has returned or unwound: its Sender is dropped
SenderDropped == prodPc \in {"returned", "panicked"}

Init ==
  /\ remote \in BOOLEAN
  /\ running = TRUE
  /\ handlerSet = FALSE
  /\ stream = "None"
  /\ mainPc = "connect"
  /\ prodPc = "unspawned"
  /\ chan = <<>>
  /\ a = NoRec
  /\ bytes_written = 0
  /\ messages = ZeroBuf
  /\ i = 0
  /\ message_count = 0
  /\ hwLog = <<>>
  /\ sentLog = <<>>
  /\ writeLog = <<>>
  /\ bufSent = <<>>
  /\ slotsScanned = 0
  /\ countAtRead = 0
  /\ reads = 0
  /\ connects = 0
  /\ stores = 0
  /\ flagReads = 0
  /\ stopPhase = "none"
  /\ readsAtStop = 0
  /\ warnings = 0
  /\ shortWrites = 0
  /\ flushes = 0
  /\ mainFailure = "none"
  /\ prodFailure = "none"
  /\ walk = <<>>

(* ---------------------------------------------------------------------- *)
(* main                                                                     *)
(* ---------------------------------------------------------------------- *)

\* Connect that logs a failed connect and carries on without a stream
ConnectIgnoresError ==
  /\ mainPc = "connect"
  /\ IF remote
       THEN /\ connects' = connects + 1
            /\ \/ /\ stream' = "Some"
                  /\ mainPc' = "set_handler"
                  /\ UNCHANGED mainFailure
               \/ /\ stream' = stream
                  /\ mainPc' = "set_handler"
                  /\ mainFailure' = "connect"
       ELSE /\ mainPc' = "set_handler"
            /\ UNCHANGED <<connects, stream, mainFailure>>
  /\ UNCHANGED <<remote, running, handlerSet, chan, a, bytes_written,
                 writeLog, stores, stopPhase, readsAtStop, warnings, shortWrites, flushes>>
  /\ UNCHANGED prodVars
  /\ UNCHANGED walk

\* if remote { stream = match TcpStream::connect(addr) { Ok => Some, Err => panic! } }
Connect ==
  /\ mainPc = "connect"
  /\ IF remote
       THEN /\ connects' = connects + 1
            /\ \/ /\ stream' = "Some"
                  /\ mainPc' = "set_handler"
                  /\ UNCHANGED mainFailure
               \/ /\ stream' = stream
                  /\ mainPc' = "panicked"
                  /\ mainFailure' = "connect"
       ELSE /\ mainPc' = "set_handler"
            /\ UNCHANGED <<connects, stream, mainFailure>>
  /\ UNCHANGED <<remote, running, handlerSet, chan, a, bytes_written,
                 writeLog, stores, stopPhase, readsAtStop, warnings, shortWrites, flushes>>
  /\ UNCHANGED prodVars
  /\ UNCHANGED walk


\* SetHandler that clears the run flag itself when it installs the closure
SetHandlerClears ==
  /\ mainPc = "set_handler"
  /\ \/ /\ handlerSet' = TRUE
        /\ running' = FALSE
        /\ mainPc' = "spawn"
        /\ UNCHANGED mainFailure
     \/ /\ handlerSet' = handlerSet
        /\ running' = running
        /\ mainPc' = "panicked"
        /\ mainFailure' = "set_handler"
  /\ UNCHANGED <<remote, stream, chan, a, bytes_written, writeLog,
                 connects, stores, stopPhase, readsAtStop, warnings, shortWrites, flushes>>
  /\ UNCHANGED prodVars
  /\ UNCHANGED walk

\* ctrlc::set_handler(move || { r.store(false, SeqCst) }).expect(..)
SetHandler ==
  /\ mainPc = "set_handler"
  /\ \/ /\ handlerSet' = TRUE
        /\ mainPc' = "spawn"
        /\ UNCHANGED mainFailure
     \/ /\ handlerSet' = handlerSet
        /\ mainPc' = "panicked"
        /\ mainFailure' = "set_handler"
  /\ UNCHANGED <<remote, running, stream, chan, a, bytes_written, writeLog,
                 connects, stores, stopPhase, readsAtStop, warnings, shortWrites, flushes>>
  /\ UNCHANGED prodVars
  /\ UNCHANGED walk

\* let (tx, rx) = channel(); thread::spawn(move || produce(tx, cli, running))
Spawn ==
  /\ mainPc = "spawn"
  /\ mainPc' = "recv"
  /\ prodPc' = "open"
  /\ UNCHANGED <<remote, running, handlerSet, stream, chan, a, bytes_written,
                 messages, i, message_count, hwLog, sentLog, writeLog,
                 bufSent, slotsScanned, countAtRead, reads, connects, stores,
                 flagReads, stopPhase, readsAtStop, warnings, shortWrites, flushes,
                 mainFailure, prodFailure, walk>>

\* Recv that fails as soon as the sender is gone, queued records or not
RecvFailsOnHangup ==
  /\ mainPc = "recv"
  /\ IF SenderDropped
       THEN /\ mainPc' = "returned"
            /\ UNCHANGED <<a, chan>>
       ELSE /\ chan # <<>>
            /\ a' = Head(chan)
            /\ chan' = Tail(chan)
            /\ mainPc' = IF remote /\ stream = "Some" THEN "write" ELSE "recv"
  /\ UNCHANGED <<remote, running, handlerSet, stream, bytes_written, writeLog,
                 connects, stores, stopPhase, readsAtStop, warnings, shortWrites, flushes,
                 mainFailure>>
  /\ UNCHANGED prodVars
  /\ UNCHANGED walk

\* Recv over a channel that hands out the newest record first
RecvNewestFirst ==
  /\ mainPc = "recv"
  /\ IF chan # <<>>
       THEN /\ a' = chan[Len(chan)]
            /\ chan' = SubSeq(chan, 1, Len(chan) - 1)
            /\ mainPc' = IF remote /\ stream = "Some" THEN "write" ELSE "recv"
       ELSE /\ SenderDropped
            /\ mainPc' = "returned"
            /\ UNCHANGED <<a, chan>>
  /\ UNCHANGED <<remote, running, handlerSet, stream, bytes_written, writeLog,
                 connects, stores, stopPhase, readsAtStop, warnings, shortWrites, flushes,
                 mainFailure>>
  /\ UNCHANGED prodVars
  /\ UNCHANGED walk

\* Recv that discards the record received while more are queued
RecvSkipsBacklog ==
  /\ mainPc = "recv"
  /\ IF chan # <<>>
       THEN /\ a' = Head(chan)
            /\ chan' = Tail(chan)
            /\ mainPc' = IF remote /\ stream = "Some" /\ Tail(chan) = <<>>
                           THEN "write" ELSE "recv"
       ELSE /\ SenderDropped
            /\ mainPc' = "returned"
            /\ UNCHANGED <<a, chan>>
  /\ UNCHANGED <<remote, running, handlerSet, stream, bytes_written, writeLog,
                 connects, stores, stopPhase, readsAtStop, warnings, shortWrites, flushes,
                 mainFailure>>
  /\ UNCHANGED prodVars
  /\ UNCHANGED walk

\* match rx.recv() { Ok(a) => if remote { if let Some(stream) .. }, Err(_) => break }
Recv ==
  /\ mainPc = "recv"
  /\ IF chan # <<>>
       THEN /\ a' = Head(chan)
            /\ chan' = Tail(chan)
            /\ mainPc' = IF remote /\ stream = "Some" THEN "write" ELSE "recv"
       ELSE /\ SenderDropped
            /\ mainPc' = "returned"
            /\ UNCHANGED <<a, chan>>
  /\ UNCHANGED <<remote, running, handlerSet, stream, bytes_written, writeLog,
                 connects, stores, stopPhase, readsAtStop, warnings, shortWrites, flushes,
                 mainFailure>>
  /\ UNCHANGED prodVars
  /\ UNCHANGED walk

\* the results stream.write(a.as_bytes()) may return in Ok
WriteResults(len) == {ShortWrite, len}

\* Write that logs a write error and carries on with the loop
WriteIgnoresError ==
  /\ mainPc = "write"
  /\ writeLog' = Append(writeLog, a)
  /\ \/ \E b \in WriteResults(Len(a.rec)) :
          /\ bytes_written' = b
          /\ shortWrites' = IF b < Len(a.rec) THEN shortWrites + 1 ELSE shortWrites
          /\ warnings' = IF b < Len(a.rec) THEN warnings + 1 ELSE warnings
          /\ mainPc' = "flush"
          /\ UNCHANGED mainFailure
     \/ /\ mainPc' = "recv"
        /\ mainFailure' = "write"
        /\ UNCHANGED <<bytes_written, shortWrites, warnings>>
  /\ UNCHANGED <<remote, running, handlerSet, stream, chan, a, connects,
                 stores, stopPhase, readsAtStop, flushes>>
  /\ UNCHANGED prodVars
  /\ UNCHANGED walk

\* Write that, after a short write, warns and goes straight to the next recv
WriteShortSkipsFlush ==
  /\ mainPc = "write"
  /\ writeLog' = Append(writeLog, a)
  /\ \/ \E b \in WriteResults(Len(a.rec)) :
          /\ bytes_written' = b
          /\ shortWrites' = IF b < Len(a.rec) THEN shortWrites + 1 ELSE shortWrites
          /\ warnings' = IF b < Len(a.rec) THEN warnings + 1 ELSE warnings
          /\ mainPc' = IF b < Len(a.rec) THEN "recv" ELSE "flush"
          /\ UNCHANGED mainFailure
     \/ /\ mainPc' = "panicked"
        /\ mainFailure' = "write"
        /\ UNCHANGED <<bytes_written, shortWrites, warnings>>
  /\ UNCHANGED <<remote, running, handlerSet, stream, chan, a, connects,
                 stores, stopPhase, readsAtStop, flushes>>
  /\ UNCHANGED prodVars
  /\ UNCHANGED walk

\* let bytes_written = match stream.write(a.as_bytes()) { Ok(b) => b, Err(_) => panic! };
\* if bytes_written < a.len() { warn!(..) }
Write ==
  /\ mainPc = "write"
  /\ writeLog' = Append(writeLog, a)
  /\ \/ \E b \in WriteResults(Len(a.rec)) :
          /\ bytes_written' = b
          /\ shortWrites' = IF b < Len(a.rec) THEN shortWrites + 1 ELSE shortWrites
          /\ warnings' = IF b < Len(a.rec) THEN warnings + 1 ELSE warnings
          /\ mainPc' = "flush"
          /\ UNCHANGED mainFailure
     \/ /\ mainPc' = "panicked"
        /\ mainFailure' = "write"
        /\ UNCHANGED <<bytes_written, shortWrites, warnings>>
  /\ UNCHANGED <<remote, running, handlerSet, stream, chan, a, connects,
                 stores, stopPhase, readsAtStop, flushes>>
  /\ UNCHANGED prodVars
  /\ UNCHANGED walk

\* Flush that is put off while more records are queued
FlushWhenIdle ==
  /\ mainPc = "flush"
  /\ flushes' = IF chan = <<>> THEN flushes + 1 ELSE flushes
  /\ \/ /\ mainPc' = "recv"
        /\ a' = NoRec
        /\ bytes_written' = 0
        /\ UNCHANGED mainFailure
     \/ /\ chan = <<>>
        /\ mainPc' = "panicked"
        /\ mainFailure' = "flush"
        /\ UNCHANGED <<a, bytes_written>>
  /\ UNCHANGED <<remote, running, handlerSet, stream, chan, writeLog,
                 connects, stores, stopPhase, readsAtStop, warnings, shortWrites>>
  /\ UNCHANGED prodVars
  /\ UNCHANGED walk

\* stream.flush().unwrap(); on success the match arm ends, and with it the
\* scope of a and bytes_written
Flush ==
  /\ mainPc = "flush"
  /\ flushes' = flushes + 1
  /\ \/ /\ mainPc' = "recv"
        /\ a' = NoRec
        /\ bytes_written' = 0
        /\ UNCHANGED mainFailure
     \/ /\ mainPc' = "panicked"
        /\ mainFailure' = "flush"
        /\ UNCHANGED <<a, bytes_written>>
  /\ UNCHANGED <<remote, running, handlerSet, stream, chan, writeLog,
                 connects, stores, stopPhase, readsAtStop, warnings, shortWrites>>
  /\ UNCHANGED prodVars
  /\ UNCHANGED walk

\* CtrlC whose closure flips the flag: r.fetch_xor(true, SeqCst)
CtrlCToggles ==
  /\ handlerSet
  /\ ~Exited
  /\ stores < MaxSignals
  /\ running' = ~running
  /\ stores' = stores + 1
  /\ stopPhase' = IF stores = 0 THEN prodPc ELSE stopPhase
  /\ readsAtStop' = IF stores = 0 THEN reads ELSE readsAtStop
  /\ UNCHANGED <<remote, handlerSet, stream, mainPc, chan, a, bytes_written,
                 writeLog, connects, warnings, shortWrites, flushes, mainFailure>>
  /\ UNCHANGED prodVars
  /\ UNCHANGED walk

\* the Ctrl-C handler: r.store(false, Ordering::SeqCst)
CtrlC ==
  /\ handlerSet
  /\ ~Exited
  /\ stores < MaxSignals
  /\ running' = FALSE
  /\ stores' = stores + 1
  /\ stopPhase' = IF stores = 0 THEN prodPc ELSE stopPhase
  /\ readsAtStop' = IF stores = 0 THEN reads ELSE readsAtStop
  /\ UNCHANGED <<remote, handlerSet, stream, mainPc, chan, a, bytes_written,
                 writeLog, connects, warnings, shortWrites, flushes, mainFailure>>
  /\ UNCHANGED prodVars
  /\ UNCHANGED walk

(* ---------------------------------------------------------------------- *)
(* produce: device set-up                                                   *)
(* ---------------------------------------------------------------------- *)
\* a device call that either succeeds, moving produce to `next`, or whose
\* error makes produce panic (match .. Err(_) => panic!, or .unwrap())
SetupCall(here, calls, next, what) ==
  /\ prodPc = here
  /\ ~Exited
  /\ hwLog' = hwLog \o calls
  /\ \/ /\ prodPc' = next
        /\ UNCHANGED prodFailure
     \/ /\ prodPc' = "panicked"
        /\ prodFailure' = what
  /\ UNCHANGED <<messages, i, message_count, sentLog, bufSent, slotsScanned,
                 countAtRead, reads, flagReads, chan>>
  /\ UNCHANGED mainVars
  /\ UNCHANGED walk

\* let mut dev = match bladerf::open(None) { .. }
Open == SetupCall("open", <<"open">>, "get_fpga_size", "open")

\* dev.get_fpga_size(), and the choice of the FPGA image path
GetFpgaSize ==
  SetupCall("get_fpga_size", <<"get_fpga_size">>, "load_fpga", "get_fpga_size")

\* dev.load_fpga(fpga_path)
LoadFpga == SetupCall("load_fpga", <<"load_fpga">>, "reopen", "load_fpga")

\* dev.close(); dev = match bladerf::open(None) { .. }
Reopen == SetupCall("reopen", <<"close", "open">>, "configure", "open")

\* set_bias_tee, configure_module, set_gain_mode, set_gain, sync_config
Configure ==
  SetupCall("configure", <<"configure">>, "enable", "configure")

\* dev.enable_module(BLADERF_MODULE_RX, true).unwrap()
EnableRx ==
  SetupCall("enable", <<"enable_module_true">>, "report", "enable_module_true")

\* the info!/trace! lines that unwrap the device's getters
Report == SetupCall("report", <<>>, "loop_top", "report")

(* ---------------------------------------------------------------------- *)
(* produce: the acquisition loop                                            *)
(* ---------------------------------------------------------------------- *)
\* LoopTop that leaves the loop straight to dev.close()
LoopTopSkipsDisable ==
  /\ prodPc = "loop_top"
  /\ ~Exited
  /\ running => reads < MaxReads
  /\ flagReads' = flagReads + 1
  /\ prodPc' = IF running THEN "sync_rx" ELSE "close"
  /\ UNCHANGED <<messages, i, message_count, hwLog, sentLog, bufSent,
                 slotsScanned, countAtRead, reads, chan, prodFailure>>
  /\ UNCHANGED mainVars
  /\ UNCHANGED walk

\* LoopTop that starts one more read after it has seen the flag false
LoopTopOneMore ==
  /\ prodPc = "loop_top"
  /\ ~Exited
  /\ (running \/ reads = readsAtStop) => reads < MaxReads
  /\ flagReads' = flagReads + 1
  /\ prodPc' = IF running \/ reads = readsAtStop THEN "sync_rx" ELSE "disable"
  /\ UNCHANGED <<messages, i, message_count, hwLog, sentLog, bufSent,
                 slotsScanned, countAtRead, reads, chan, prodFailure>>
  /\ UNCHANGED mainVars
  /\ UNCHANGED walk

\* while running.load(Ordering::SeqCst)
LoopTop ==
  /\ prodPc = "loop_top"
  /\ ~Exited
  /\ running => reads < MaxReads
  /\ flagReads' = flagReads + 1
  /\ prodPc' = IF running THEN "sync_rx" ELSE "disable"
  /\ UNCHANGED <<messages, i, message_count, hwLog, sentLog, bufSent,
                 slotsScanned, countAtRead, reads, chan, prodFailure>>
  /\ UNCHANGED mainVars
  /\ UNCHANGED walk

\* SyncRx whose error is noted and the buffer scanned all the same
SyncRxIgnoresError ==
  /\ prodPc = "sync_rx"
  /\ ~Exited
  /\ reads' = reads + 1
  /\ hwLog' = Append(hwLog, "sync_rx")
  /\ \/ /\ messages' \in Bursts
        /\ UNCHANGED prodFailure
     \/ /\ prodFailure' = "sync_rx"
        /\ UNCHANGED messages
  /\ prodPc' = "scan"
  /\ i' = 0
  /\ bufSent' = <<>>
  /\ slotsScanned' = 0
  /\ countAtRead' = message_count
  /\ UNCHANGED <<message_count, sentLog, flagReads, chan>>
  /\ UNCHANGED mainVars
  /\ UNCHANGED walk

\* SyncRx whose failure disables RX streaming and closes the device before
\* produce panics
SyncRxCleansUp ==
  /\ prodPc = "sync_rx"
  /\ ~Exited
  /\ reads' = reads + 1
  /\ \/ /\ messages' \in Bursts
        /\ prodPc' = "scan"
        /\ i' = 0
        /\ bufSent' = <<>>
        /\ slotsScanned' = 0
        /\ countAtRead' = message_count
        /\ UNCHANGED prodFailure
        /\ hwLog' = Append(hwLog, "sync_rx")
     \/ /\ prodPc' = "panicked"
        /\ prodFailure' = "sync_rx"
        /\ hwLog' = hwLog \o <<"sync_rx", "enable_module_false", "close">>
        /\ UNCHANGED <<messages, i, bufSent, slotsScanned, countAtRead>>
  /\ UNCHANGED <<message_count, sentLog, flagReads, chan>>
  /\ UNCHANGED mainVars
  /\ UNCHANGED walk

\* SyncRx whose failure discards the records still queued in the channel
SyncRxLosesQueue ==
  /\ prodPc = "sync_rx"
  /\ ~Exited
  /\ reads' = reads + 1
  /\ hwLog' = Append(hwLog, "sync_rx")
  /\ \/ /\ messages' \in Bursts
        /\ prodPc' = "scan"
        /\ i' = 0
        /\ bufSent' = <<>>
        /\ slotsScanned' = 0
        /\ countAtRead' = message_count
        /\ UNCHANGED prodFailure
        /\ chan' = chan
     \/ /\ prodPc' = "panicked"
        /\ prodFailure' = "sync_rx"
        /\ chan' = <<>>
        /\ UNCHANGED <<messages, i, bufSent, slotsScanned, countAtRead>>
  /\ UNCHANGED <<message_count, sentLog, flagReads>>
  /\ UNCHANGED mainVars
  /\ UNCHANGED walk

\* dev.sync_rx(&mut messages, 1024, None, 5000).unwrap()
SyncRx ==
  /\ prodPc = "sync_rx"
  /\ ~Exited
  /\ reads' = reads + 1
  /\ hwLog' = Append(hwLog, "sync_rx")
  /\ \/ /\ messages' \in Bursts
        /\ prodPc' = "scan"
        /\ i' = 0
        /\ bufSent' = <<>>
        /\ slotsScanned' = 0
        /\ countAtRead' = message_count
        /\ UNCHANGED prodFailure
     \/ /\ prodPc' = "panicked"
        /\ prodFailure' = "sync_rx"
        /\ UNCHANGED <<messages, i, bufSent, slotsScanned, countAtRead>>
  /\ UNCHANGED <<message_count, sentLog, flagReads, chan>>
  /\ UNCHANGED mainVars
  /\ UNCHANGED walk

\* the values of i in for i in (0..4096).step_by(16)
SlotOffsets == {n * SlotWidth : n \in 0..((BufLen - 1) \div SlotWidth)}

\* the least element of a non-empty set of offsets
Least(S) == CHOOSE o \in S : \A h \in S : o <= h

\* the first iteration at or after off whose slot is valid; BufLen if none
\* (a valid slot's first byte is odd, hence among the stored bytes)
NextValid(buf, off) ==
  LET hits == {o \in SlotOffsets \cap DOMAIN buf :
                 o >= off /\ SlotValid(buf, o)}
  IN  IF hits = {} THEN BufLen ELSE Least(hits)

\* SendReady of a sync_channel(1): send waits while a record is queued
SendReadyBounded(queue) == Len(queue) < 1

\* whether sender.send can complete at once: the channel of channel() is an
\* unbounded queue, so always
SendReady(queue) == TRUE

\* sender.send on a one-place channel that drops the record when full
SendDropsWhenFull(queue, msg) ==
  IF queue = <<>> THEN Append(queue, msg) ELSE queue

\* sender.send(ascii_buf).unwrap() on the unbounded channel; the receiver
\* lives as long as the process, so the send cannot fail
Send(queue, msg) == Append(queue, msg)

\* a send that does not look at cli.remote
SendAlways == TRUE

\* if cli.remote { .. }
SendEnabled == remote

\* Scan that polls the run flag and abandons the buffer when it is false
ScanCancellable ==
  /\ prodPc = "scan"
  /\ ~Exited
  /\ IF ~running
       THEN /\ prodPc' = "loop_top"
            /\ UNCHANGED <<i, slotsScanned, chan, sentLog, bufSent,
                           message_count>>
       ELSE \E hit \in {NextValid(messages, i)} :
            LET ascii_buf == AsciiBuf(messages, hit)
                msg == [rec |-> ascii_buf, src |-> <<reads, hit>>]
            IN  /\ slotsScanned' = slotsScanned
                     + Cardinality({o \in SlotOffsets : i <= o /\ o <= hit})
                /\ IF hit < BufLen
                     THEN /\ IF SendEnabled
                               THEN /\ SendReady(chan)
                                    /\ chan' = Send(chan, msg)
                                    /\ sentLog' = Append(sentLog, msg)
                                    /\ bufSent' = Append(bufSent, ascii_buf)
                               ELSE UNCHANGED <<chan, sentLog, bufSent>>
                          /\ message_count' = message_count + 1
                     ELSE UNCHANGED <<chan, sentLog, bufSent, message_count>>
                /\ IF hit + SlotWidth < BufLen
                     THEN /\ i' = hit + SlotWidth
                          /\ prodPc' = "scan"
                     ELSE /\ i' = i
                          /\ prodPc' = "loop_top"
  /\ UNCHANGED <<messages, hwLog, countAtRead, reads, flagReads, prodFailure>>
  /\ UNCHANGED mainVars
  /\ UNCHANGED walk

\* Scan that clears the first byte of the slot it has sent
ScanConsumes ==
  /\ prodPc = "scan"
  /\ ~Exited
  /\ \E hit \in {NextValid(messages, i)} :
     LET ascii_buf == AsciiBuf(messages, hit)
         msg == [rec |-> ascii_buf, src |-> <<reads, hit>>]
     IN  /\ slotsScanned' = slotsScanned
              + Cardinality({o \in SlotOffsets : i <= o /\ o <= hit})
         /\ IF hit < BufLen
              THEN /\ IF SendEnabled
                        THEN /\ SendReady(chan)
                             /\ chan' = Send(chan, msg)
                             /\ sentLog' = Append(sentLog, msg)
                             /\ bufSent' = Append(bufSent, ascii_buf)
                        ELSE UNCHANGED <<chan, sentLog, bufSent>>
                   /\ message_count' = message_count + 1
              ELSE UNCHANGED <<chan, sentLog, bufSent, message_count>>
         /\ IF hit + SlotWidth < BufLen
              THEN /\ i' = hit + SlotWidth
                   /\ prodPc' = "scan"
              ELSE /\ i' = i
                   /\ prodPc' = "loop_top"
  /\ messages' = IF NextValid(messages, i) < BufLen
                    THEN (NextValid(messages, i) :> 0) @@ messages
                    ELSE messages
  /\ UNCHANGED <<hwLog, countAtRead, reads, flagReads, prodFailure>>
  /\ UNCHANGED mainVars
  /\ UNCHANGED walk

\* for i in (0..4096).step_by(16) { .. }: the iterations from i up to and
\* including the next valid slot, or to the end of the buffer when no valid
\* slot is left.  The iterations over invalid slots read only messages and i,
\* which no other thread sees, so they are taken together with the iteration
\* that sends.
Scan ==
  /\ prodPc = "scan"
  /\ ~Exited
  /\ \E hit \in {NextValid(messages, i)} :
     LET ascii_buf == AsciiBuf(messages, hit)
         msg == [rec |-> ascii_buf, src |-> <<reads, hit>>]
     IN  /\ slotsScanned' = slotsScanned
              + Cardinality({o \in SlotOffsets : i <= o /\ o <= hit})
         /\ IF hit < BufLen
              THEN /\ IF SendEnabled
                        THEN /\ SendReady(chan)
                             /\ chan' = Send(chan, msg)
                             /\ sentLog' = Append(sentLog, msg)
                             /\ bufSent' = Append(bufSent, ascii_buf)
                        ELSE UNCHANGED <<chan, sentLog, bufSent>>
                   /\ message_count' = message_count + 1
              ELSE UNCHANGED <<chan, sentLog, bufSent, message_count>>
         /\ IF hit + SlotWidth < BufLen
              THEN /\ i' = hit + SlotWidth
                   /\ prodPc' = "scan"
              ELSE /\ i' = i
                   /\ prodPc' = "loop_top"
  /\ UNCHANGED <<messages, hwLog, countAtRead, reads, flagReads, prodFailure>>
  /\ UNCHANGED mainVars
  /\ UNCHANGED walk

(* ---------------------------------------------------------------------- *)
(* produce: shutdown                                                        *)
(* ---------------------------------------------------------------------- *)
\* dev.enable_module(BLADERF_MODULE_RX, false).unwrap()
DisableRx ==
  /\ prodPc = "disable"
  /\ ~Exited
  /\ hwLog' = Append(hwLog, "enable_module_false")
  /\ \/ /\ prodPc' = "close"
        /\ UNCHANGED prodFailure
     \/ /\ prodPc' = "panicked"
        /\ prodFailure' = "enable_module_false"
  /\ UNCHANGED <<messages, i, message_count, sentLog, bufSent, slotsScanned,
                 countAtRead, reads, flagReads, chan>>
  /\ UNCHANGED mainVars
  /\ UNCHANGED walk

\* dev.close(); produce returns and drops sender
CloseDev ==
  /\ prodPc = "close"
  /\ ~Exited
  /\ hwLog' = Append(hwLog, "close")
  /\ prodPc' = "returned"
  /\ UNCHANGED <<messages, i, message_count, sentLog, bufSent, slotsScanned,
                 countAtRead, reads, flagReads, chan, prodFailure>>
  /\ UNCHANGED mainVars
  /\ UNCHANGED walk

(* ---------------------------------------------------------------------- *)
(* Specifications                                                           *)
(* ---------------------------------------------------------------------- *)
MainStep == Connect \/ SetHandler \/ Spawn \/ Recv \/ Write \/ Flush

ProduceStep ==
  \/ Open \/ GetFpgaSize \/ LoadFpga \/ Reopen \/ Configure \/ EnableRx
  \/ Report \/ LoopTop \/ SyncRx \/ Scan \/ DisableRx \/ CloseDev

Next ==
  \/ Connect \/ SetHandler \/ Spawn \/ Recv \/ Write \/ Flush
  \/ CtrlC
  \/ Open \/ GetFpgaSize \/ LoadFpga \/ Reopen \/ Configure \/ EnableRx
  \/ Report \/ LoopTop \/ SyncRx \/ Scan \/ DisableRx \/ CloseDev

Spec == Init /\ [][Next]_vars

\* both threads are scheduled; every blocking call returns
FairSpec == Spec /\ WF_vars(MainStep) /\ WF_vars(ProduceStep)

(* ---------------------------------------------------------------------- *)
(* The for loop, one iteration per step                                     *)
(* ---------------------------------------------------------------------- *)
ShortTail == <<17, 34, 51, 68, 85, 102, 119>>

\* what a burst may leave in the slot at off: nothing, a slot whose first
\* byte is even, a short frame followed by other bytes, a long frame
SlotFills(off) ==
  { ZeroBuf,
    SlotAt(off, 254, 7, JunkPay),
    SlotAt(off, 1, 0, ShortPay \o ShortTail),
    SlotAt(off, 3, 9, LongPay) }

\* the buffers the loop is walked over: every filling of the first, the
\* second and the last slot, and the buffer whose only non-zero byte is
\* messages[0] = 0x01
WalkBuffers ==
  { f0 @@ f1 @@ f2 : f0 \in SlotFills(0), f1 \in SlotFills(SlotWidth),
                     f2 \in SlotFills(LastSlot) }
    \cup { SlotAt(0, 1, 0, <<>>) }

\* the indices of messages one iteration reads: messages[i], and for a
\* valid slot messages[i + 2] and messages[i + 2 + k] for k < end
IndicesRead(buf, off) ==
  {off} \cup
    IF SlotValid(buf, off)
      THEN {off + 2} \cup {FrameIdx(off, k) : k \in 0..(FrameEnd(buf, off) - 1)}
      ELSE {}

\* StepBy that advances by half a slot
StepByHalf(off) == off + SlotWidth \div 2

\* .step_by(16): the value of i after off
StepBy(off) == off + SlotWidth

\* produce has just filled messages by its first sync_rx
WalkInit ==
  /\ remote \in BOOLEAN
  /\ running = TRUE
  /\ handlerSet = TRUE
  /\ stream = IF remote THEN "Some" ELSE "None"
  /\ mainPc = "recv"
  /\ prodPc = "scan"
  /\ chan = <<>>
  /\ a = NoRec
  /\ bytes_written = 0
  /\ messages \in WalkBuffers
  /\ i = 0
  /\ message_count = 0
  /\ hwLog = <<"open", "get_fpga_size", "load_fpga", "close", "open",
               "configure", "enable_module_true", "sync_rx">>
  /\ sentLog = <<>>
  /\ writeLog = <<>>
  /\ bufSent = <<>>
  /\ slotsScanned = 0
  /\ countAtRead = 0
  /\ reads = 1
  /\ connects = IF remote THEN 1 ELSE 0
  /\ stores = 0
  /\ flagReads = 1
  /\ stopPhase = "none"
  /\ readsAtStop = 0
  /\ warnings = 0
  /\ shortWrites = 0
  /\ flushes = 0
  /\ mainFailure = "none"
  /\ prodFailure = "none"
  /\ walk = <<>>

\* ScanSlot whose ascii_buf is never reset: each record is pushed after the
\* record sent before it
ScanSlotStale ==
  /\ prodPc = "scan"
  /\ ~Exited
  /\ LET stale == IF sentLog = <<>> THEN <<>>
                  ELSE sentLog[Len(sentLog)].rec
         ascii_buf == stale \o AsciiBuf(messages, i)
         msg == [rec |-> ascii_buf, src |-> <<reads, i>>]
     IN  /\ walk' = Append(walk, [off |-> i,
                                  idx |-> IndicesRead(messages, i),
                                  out |-> IF SlotValid(messages, i)
                                            THEN <<ascii_buf>> ELSE <<>>])
         /\ slotsScanned' = slotsScanned + 1
         /\ IF SlotValid(messages, i)
              THEN /\ IF SendEnabled
                        THEN /\ SendReady(chan)
                             /\ chan' = Send(chan, msg)
                             /\ sentLog' = Append(sentLog, msg)
                             /\ bufSent' = Append(bufSent, ascii_buf)
                        ELSE UNCHANGED <<chan, sentLog, bufSent>>
                   /\ message_count' = message_count + 1
              ELSE UNCHANGED <<chan, sentLog, bufSent, message_count>>
         /\ IF StepBy(i) < BufLen
              THEN /\ i' = StepBy(i) /\ prodPc' = "scan"
              ELSE /\ i' = i /\ prodPc' = "loop_top"
  /\ UNCHANGED <<messages, hwLog, countAtRead, reads, flagReads, prodFailure>>
  /\ UNCHANGED mainVars

\* one iteration of for i in (0..4096).step_by(16) { .. }
ScanSlot ==
  /\ prodPc = "scan"
  /\ ~Exited
  /\ LET ascii_buf == AsciiBuf(messages, i)
         msg == [rec |-> ascii_buf, src |-> <<reads, i>>]
     IN  /\ walk' = Append(walk, [off |-> i,
                                  idx |-> IndicesRead(messages, i),
                                  out |-> SlotRecords(messages, i)])
         /\ slotsScanned' = slotsScanned + 1
         /\ IF SlotValid(messages, i)
              THEN /\ IF SendEnabled
                        THEN /\ SendReady(chan)
                             /\ chan' = Send(chan, msg)
                             /\ sentLog' = Append(sentLog, msg)
                             /\ bufSent' = Append(bufSent, ascii_buf)
                        ELSE UNCHANGED <<chan, sentLog, bufSent>>
                   /\ message_count' = message_count + 1
              ELSE UNCHANGED <<chan, sentLog, bufSent, message_count>>
         /\ IF StepBy(i) < BufLen
              THEN /\ i' = StepBy(i) /\ prodPc' = "scan"
              ELSE /\ i' = i /\ prodPc' = "loop_top"
  /\ UNCHANGED <<messages, hwLog, countAtRead, reads, flagReads, prodFailure>>
  /\ UNCHANGED mainVars

WalkNext == ScanSlot

\* the extraction of one buffer, slot by slot
WalkSpec == WalkInit /\ [][WalkNext]_vars

\* dev.sync_rx(..) that leaves in messages the bytes it held already: the
\* hardware delivers the same samples again
SyncRxSame ==
  /\ prodPc = "sync_rx"
  /\ ~Exited
  /\ reads' = reads + 1
  /\ hwLog' = Append(hwLog, "sync_rx")
  /\ messages' = messages
  /\ prodPc' = "scan"
  /\ i' = 0
  /\ bufSent' = <<>>
  /\ slotsScanned' = 0
  /\ countAtRead' = message_count
  /\ UNCHANGED <<message_count, sentLog, flagReads, chan, prodFailure>>
  /\ UNCHANGED mainVars
  /\ UNCHANGED walk

RewalkNext == ScanSlot \/ LoopTop \/ SyncRxSame

\* the extraction of one buffer, repeated on the same bytes
RewalkSpec == WalkInit /\ [][RewalkNext]_vars

\* the frames rendered for the round trip: a 14-byte payload with one of
\* its bytes replaced by any byte value
VariedPays ==
  { [base EXCEPT ![p] = v] : base \in {ShortPay \o ShortTail, LongPay},
                             p \in 1..LongLen, v \in 0..255 }

\* the iterations over the slots before the last one, none of them valid
EarlierSlots ==
  [j \in 1..(NumSlots - 1) |->
     [off |-> (j - 1) * SlotWidth, idx |-> {(j - 1) * SlotWidth}, out |-> <<>>]]

\* produce has reached the last slot of its first buffer, whose earlier
\* slots are all zero
HexInit ==
  /\ remote \in BOOLEAN
  /\ running = TRUE
  /\ handlerSet = TRUE
  /\ stream = IF remote THEN "Some" ELSE "None"
  /\ mainPc = "recv"
  /\ prodPc = "scan"
  /\ chan = <<>>
  /\ a = NoRec
  /\ bytes_written = 0
  /\ \E pay \in VariedPays : messages = SlotAt(LastSlot, 1, 0, pay)
  /\ i = LastSlot
  /\ message_count = 0
  /\ hwLog = <<"open", "get_fpga_size", "load_fpga", "close", "open",
               "configure", "enable_module_true", "sync_rx">>
  /\ sentLog = <<>>
  /\ writeLog = <<>>
  /\ bufSent = <<>>
  /\ slotsScanned = NumSlots - 1
  /\ countAtRead = 0
  /\ reads = 1
  /\ connects = IF remote THEN 1 ELSE 0
  /\ stores = 0
  /\ flagReads = 1
  /\ stopPhase = "none"
  /\ readsAtStop = 0
  /\ warnings = 0
  /\ shortWrites = 0
  /\ flushes = 0
  /\ mainFailure = "none"
  /\ prodFailure = "none"
  /\ walk = EarlierSlots

\* the rendering of one frame, for every frame of VariedPays
HexSpec == HexInit /\ [][ScanSlot]_vars

\* the for loop has run to its end
WalkDone == prodPc = "loop_top"

\* the last iteration taken
LastStep == walk[Len(walk)]

(* ---------------------------------------------------------------------- *)
(* Properties                                                               *)
(* ---------------------------------------------------------------------- *)
\* <<buffer number, slot offset>> pairs in extraction order
SrcBefore(x, y) == x[1] < y[1] \/ (x[1] = y[1] /\ x[2] < y[2])

\* the record main holds between rx.recv() and stream.write
InHand == IF mainPc = "write" THEN <<a>> ELSE <<>>

\* C1: the records handed to stream.write are, one for one and in the same
\* order, the first records the producer sent; and that order is ascending
\* slot offset within a buffer and buffers in acquisition order, so no two
\* records are ever written in the opposite order from which they were sent.
C1_WriteOrder ==
  /\ Len(writeLog) <= Len(sentLog)
  /\ \A j \in 1..Len(writeLog) : writeLog[j] = sentLog[j]
  /\ \A j, k \in 1..Len(sentLog) :
       j < k => SrcBefore(sentLog[j].src, sentLog[k].src)
  /\ \A j, k \in 1..Len(writeLog) :
       j < k => SrcBefore(writeLog[j].src, writeLog[k].src)

\* two records of one buffer and one of the next have been written while a
\* further record waits in the channel
C1_Witness ==
  /\ Len(writeLog) >= 3
  /\ writeLog[1].src[1] # writeLog[3].src[1]
  /\ writeLog[1].src[2] < writeLog[2].src[2]
  /\ chan # <<>>

\* C2 as stated: with remote delivery and no write failure, the records
\* passed to stream.write followed by the records in the channel are the
\* records sent so far, in every reachable state.
C2_AsStated ==
  (remote /\ mainFailure # "write") => writeLog \o chan = sentLog

\* C2 as amended: with remote delivery and no write failure, the records
\* passed to stream.write, then the record main has received and not yet
\* written (if any), then the records in the channel, are exactly the records
\* sent so far.
C2_Handoff ==
  (remote /\ mainFailure # "write") => writeLog \o InHand \o chan = sentLog

\* the producer has run three records ahead of a consumer that holds a fourth
C2_Witness ==
  /\ remote
  /\ mainPc = "write"
  /\ Len(chan) >= 2
  /\ Len(writeLog) >= 1

\* slot numbers whose first byte has bit 0 set
ValidSlots(buf) ==
  {n \in 0..(NumSlots - 1) : Byte(buf, n * SlotWidth) % 2 = 1}

\* the buffer in hand has been processed to its end
BufferDone ==
  /\ slotsScanned = NumSlots
  /\ bufSent = IF remote THEN Extract(messages) ELSE <<>>
  /\ message_count = countAtRead + Cardinality(ValidSlots(messages))

\* the strings of a log of channel messages
Recs(log) == [j \in 1..Len(log) |-> log[j].rec]

\* C3: the run flag is loaded only at the top of the acquisition loop, and
\* whenever it is loaded after a hardware read, all 256 slots of the buffer
\* that read delivered have been scanned, every valid slot counted and (with
\* remote delivery) its record sent, whenever the flag was cleared.
C3_FlagReadAtBoundary ==
  [][flagReads' # flagReads =>
       /\ prodPc = "loop_top"
       /\ reads = 0 \/ BufferDone]_vars

\* the flag was cleared while sync_rx was in flight, and the buffer it then
\* delivered was extracted to the end before the loop saw the flag
C3_Witness ==
  /\ stopPhase = "sync_rx"
  /\ prodPc = "disable"
  /\ Len(bufSent) = 2
  /\ slotsScanned = NumSlots

\* C4: when main has returned after the flag was cleared and no hardware read
\* failed (a write error would have made main panic), the channel is empty and
\* the records passed to stream.write are exactly the records sent, the last
\* of them being every record of the buffer in hand when the flag changed.
C4_DrainedAtExit ==
  (mainPc = "returned" /\ ~running /\ prodFailure # "sync_rx") =>
     /\ chan = <<>>
     /\ writeLog = sentLog
     /\ reads > 0 =>
          /\ BufferDone
          /\ Len(bufSent) <= Len(writeLog)
          /\ SubSeq(Recs(writeLog), Len(writeLog) - Len(bufSent) + 1,
                    Len(writeLog)) = bufSent

\* the flag was cleared in mid-extraction of the second buffer and the run
\* ended with all four records written
C4_Witness ==
  /\ mainPc = "returned"
  /\ prodPc = "returned"
  /\ remote
  /\ stopPhase = "scan"
  /\ reads = 2
  /\ Len(bufSent) = 2
  /\ Len(writeLog) = 4

\* C5: once the flag is false the process eventually ends; unless a call in
\* main failed it ends by produce having ended (its sender dropped), the
\* channel drained and main returned after rx.recv() failed; and when no call
\* of produce failed either, produce left the loop and returned.
C5_Stops ==
  (~running) ~>
     (/\ Exited
      /\ mainFailure = "none" =>
            (/\ mainPc = "returned"
             /\ prodPc \in {"returned", "panicked"}
             /\ chan = <<>>
             /\ prodFailure = "none" => prodPc = "returned"))

\* a cancelled run that ended without any failure after acquiring
C5_Witness ==
  /\ ~running
  /\ mainPc = "returned"
  /\ prodPc = "returned"
  /\ mainFailure = "none"
  /\ prodFailure = "none"
  /\ reads >= 1
  /\ stopPhase = "loop_top"

\* number of calls of one kind in the device log
Count(log, call) == Cardinality({j \in 1..Len(log) : log[j] = call})

\* the device calls made after the acquisition loop: those after the last
\* sync_rx, or after enable_module(RX, true) when no read was issued
AfterLoop ==
  LET marks == {j \in 1..Len(hwLog) :
                  hwLog[j] \in {"sync_rx", "enable_module_true"}}
      last == IF marks = {} THEN 0
              ELSE CHOOSE j \in marks : \A k \in marks : k <= j
  IN  SubSeq(hwLog, last + 1, Len(hwLog))

\* C6 as stated: whenever produce has ended after leaving the loop on a false
\* flag, it has disabled RX streaming and then closed the device, each
\* exactly once and in that order.
C6_AsStated ==
  (\/ prodPc = "returned"
   \/ prodPc = "panicked" /\ prodFailure = "enable_module_false") =>
     AfterLoop = <<"enable_module_false", "close">>

\* C6 as amended: enable_module(RX, false) is called at most once, only after
\* the loop was left on a false flag, and no hardware read follows it; a
\* produce that returns has called enable_module(RX, false) and then close,
\* each exactly once and in that order, after the last hardware read, also
\* when no read was issued; when enable_module(RX, false) fails, produce
\* panics and close is not called.
C6_Shutdown ==
  /\ Count(hwLog, "enable_module_false") <= 1
  /\ \A j, k \in 1..Len(hwLog) :
       (j < k /\ hwLog[j] = "enable_module_false") => hwLog[k] = "close"
  /\ prodPc = "disable" => (~running /\ AfterLoop = <<>>)
  /\ prodPc = "close" => AfterLoop = <<"enable_module_false">>
  /\ prodPc = "returned" => AfterLoop = <<"enable_module_false", "close">>
  /\ (prodPc = "panicked" /\ prodFailure = "enable_module_false") =>
       AfterLoop = <<"enable_module_false">>

\* produce returned from a loop whose very first flag check failed
C6_Witness ==
  /\ prodPc = "returned"
  /\ reads = 0
  /\ flagReads = 1
  /\ AfterLoop = <<"enable_module_false", "close">>

\* C7: the step in which sync_rx fails makes produce panic without scanning a
\* slot, sending a record or counting a frame; afterwards no device call is
\* made and no read issued; and the process then ends, by main returning from
\* a drained channel unless main itself panicked.
C7_ReadErrorFatal ==
  /\ [][prodFailure' = "sync_rx" =>
          /\ prodPc' = "panicked"
          /\ UNCHANGED <<sentLog, bufSent, slotsScanned, message_count>>
          /\ Len(chan') <= Len(chan)
          /\ prodFailure = "sync_rx" => UNCHANGED <<reads, hwLog>>]_vars
  /\ (prodFailure = "sync_rx") ~>
       (/\ Exited
        /\ mainFailure = "none" => (mainPc = "returned" /\ chan = <<>>))

\* the second read failed and the run ended
C7_Witness ==
  /\ prodFailure = "sync_rx"
  /\ reads = 2
  /\ sentLog # <<>>
  /\ mainPc = "returned"

\* C8: a failed stream.write makes main panic, which ends the process: from
\* then on nothing happens at all, so no record is written, no connection
\* opened (there was exactly one), no record received and no device call made.
C8_WriteErrorFatal ==
  [][/\ mainFailure' = "write" => (mainPc' = "panicked" /\ connects' = 1)
     /\ mainFailure = "write" => UNCHANGED vars]_vars

\* the write failed while the producer was extracting, the flag still true
\* and records waiting in the channel
C8_Witness ==
  /\ mainFailure = "write"
  /\ running
  /\ prodPc = "scan"
  /\ chan # <<>>

\* C9: a short write produces one warning, does not make main panic and is
\* followed by the flush; the flush is followed by the next recv unless the
\* flush itself fails; and every stream.write is passed the next record sent,
\* whole, never the remainder of an earlier one.
C9_ShortWrite ==
  [][/\ shortWrites' # shortWrites =>
          /\ warnings' = warnings + 1
          /\ mainPc' = "flush"
          /\ mainFailure' = "none"
     /\ warnings' - warnings = shortWrites' - shortWrites
     /\ (mainPc = "flush" /\ mainPc' # "flush") =>
          /\ flushes' = flushes + 1
          /\ mainPc' = "recv" \/ mainFailure' = "flush"
     /\ writeLog' # writeLog =>
          /\ Len(sentLog) > Len(writeLog)
          /\ writeLog' = Append(writeLog, sentLog[Len(writeLog) + 1])]_vars

\* two records in a row were written short, the first of them flushed
C9_Witness ==
  /\ shortWrites = 2
  /\ warnings = 2
  /\ Len(writeLog) = 2
  /\ flushes >= 1
  /\ mainPc = "flush"

\* C10: with remote delivery disabled no connection is opened, no record is
\* sent or queued, stream.write and stream.flush are never called, and yet
\* every buffer is scanned to its end with the frame counter advancing by one
\* per valid slot.
C10_RemoteDisabled ==
  ~remote =>
     /\ connects = 0
     /\ stream = "None"
     /\ sentLog = <<>>
     /\ chan = <<>>
     /\ writeLog = <<>>
     /\ flushes = 0
     /\ mainPc # "write"
     /\ (reads > 0 /\ prodPc \in {"loop_top", "disable", "close", "returned"})
          => BufferDone
     /\ prodPc = "scan" =>
          message_count = countAtRead
             + Cardinality({n \in ValidSlots(messages) : n * SlotWidth < i})

\* two buffers with two valid slots each were counted without delivery
C10_Witness ==
  /\ ~remote
  /\ prodPc = "loop_top"
  /\ reads = 2
  /\ message_count = 4

(* ---------------------------------------------------------------------- *)
(* Record format                                                            *)
(* ---------------------------------------------------------------------- *)
\* the characters 0-9 and a-f
LowerHex == (48..57) \cup (97..102)

\* the value of a lowercase hexadecimal digit
HexVal(c) == IF c <= 57 THEN c - 48 ELSE c - 87

\* the number of bytes a record renders
FrameLen(rec) == (Len(rec) - 3) \div 2

\* the k-th byte (from 0) a record renders
RecByte(rec, k) == 16 * HexVal(rec[2 + 2 * k]) + HexVal(rec[3 + 2 * k])

\* rec is '*', two lowercase hex digits for each of the bytes of buf from
\* off + 2 on, in order, then ';' and '\n'
WellFormed(rec, buf, off) ==
  /\ Len(rec) \in {3 + 2 * ShortLen, 3 + 2 * LongLen}
  /\ rec[1] = 42
  /\ rec[Len(rec) - 1] = 59
  /\ rec[Len(rec)] = 10
  /\ \A k \in 0..(FrameLen(rec) - 1) :
        /\ rec[2 + 2 * k] \in LowerHex
        /\ rec[3 + 2 * k] \in LowerHex
        /\ RecByte(rec, k) = Byte(buf, off + 2 + k)

\* the bytes of buf at off + 2 .. off + 8
Seven(buf, off) == [k \in 1..ShortLen |-> Byte(buf, off + 1 + k)]

\* 8D 4C A2 1B 58 1B 32 and "*8d4ca21b581b32;\n"
Example8d == <<141, 76, 162, 27, 88, 27, 50>>
Record8d == <<42, 56, 100, 52, 99, 97, 50, 49, 98, 53, 56, 49, 98, 51, 50,
              59, 10>>

\* 5D 4C A2 1B 58 1B 32 and "*5d4ca21b581b32;\n"
Example5d == <<93, 76, 162, 27, 88, 27, 50>>
Record5d == <<42, 53, 100, 52, 99, 97, 50, 49, 98, 53, 56, 49, 98, 51, 50,
              59, 10>>

\* every record the iteration just taken built is well formed
FormatHolds ==
  walk # <<>> =>
    \A j \in 1..Len(LastStep.out) :
       WellFormed(LastStep.out[j], messages, LastStep.off)

\* C11 as stated: every record built is '*', the two-digit lowercase hex of
\* each frame byte in order, ';' and a newline, 17 or 31 characters long,
\* and a frame made of the bytes 8D 4C A2 1B 58 1B 32 is rendered as
\* "*8d4ca21b581b32;\n".
C11_AsStated ==
  /\ FormatHolds
  /\ (/\ walk # <<>>
      /\ SlotValid(messages, LastStep.off)
      /\ Seven(messages, LastStep.off) = Example8d)
        => LastStep.out = <<Record8d>>

\* C11: every record built is '*', the two-digit lowercase hex of each frame
\* byte in order, ';' and a newline, 17 or 31 characters long; the frame
\* 5D 4C A2 1B 58 1B 32 is rendered as "*5d4ca21b581b32;\n", and a frame
\* that begins 8D 4C A2 1B 58 1B 32 is 14 bytes long, its record beginning
\* "*8d4ca21b581b32" and being 31 characters long.
C11_RecordFormat ==
  /\ FormatHolds
  /\ (walk # <<>> /\ SlotValid(messages, LastStep.off)) =>
          /\ Seven(messages, LastStep.off) = Example5d
               => LastStep.out = <<Record5d>>
          /\ Seven(messages, LastStep.off) = Example8d
               => /\ Len(LastStep.out[1]) = 3 + 2 * LongLen
                  /\ SubSeq(LastStep.out[1], 1, 15) = SubSeq(Record8d, 1, 15)

\* the loop has built "*5d4ca21b581b32;\n" and a record of a frame that
\* begins 8D 4C A2 1B 58 1B 32
C11_Witness ==
  /\ WalkDone
  /\ \E j \in 1..Len(walk) : walk[j].out = <<Record5d>>
  /\ \E j \in 1..Len(walk) :
        /\ walk[j].out # <<>>
        /\ Seven(messages, walk[j].off) = Example8d

(* ---------------------------------------------------------------------- *)
(* Frame length and position                                                *)
(* ---------------------------------------------------------------------- *)
\* the length the slot's third byte announces
Announced(buf, off) == IF Byte(buf, off + 2) >= 128 THEN LongLen ELSE ShortLen

\* C12: for every valid slot the frame is exactly 14 bytes long when bit
\* 0x80 of the slot's third byte is set and exactly 7 bytes long otherwise,
\* and its bytes are those at slot offsets 2 .. 2 + length - 1, in order.
C12_FrameLength ==
  (walk # <<>> /\ SlotValid(messages, LastStep.off)) =>
     LET off == LastStep.off
         len == Announced(messages, off)
     IN  /\ Len(LastStep.out) = 1
         /\ FrameLen(LastStep.out[1]) = len
         /\ Len(LastStep.out[1]) = 3 + 2 * len
         /\ \A k \in 0..(len - 1) :
               RecByte(LastStep.out[1], k) = Byte(messages, off + 2 + k)
         /\ LastStep.idx \ {off} = (off + 2)..(off + 1 + len)

\* the loop has met a 7-byte frame followed by non-zero bytes and a 14-byte
\* frame
C12_Witness ==
  /\ WalkDone
  /\ \E j \in 1..Len(walk) :
        /\ walk[j].out # <<>>
        /\ FrameLen(walk[j].out[1]) = ShortLen
        /\ Byte(messages, walk[j].off + 2 + ShortLen) # 0
  /\ \E j \in 1..Len(walk) :
        /\ walk[j].out # <<>>
        /\ FrameLen(walk[j].out[1]) = LongLen

(* ---------------------------------------------------------------------- *)
(* Records of one buffer                                                    *)
(* ---------------------------------------------------------------------- *)
\* the iterations taken so far that built a record
Built == {j \in 1..Len(walk) : walk[j].out # <<>>}

\* the n-th (from 1) iteration that built a record
NthBuilt(n) == CHOOSE j \in Built : Cardinality({m \in Built : m <= j}) = n

\* "*00000000000000;\n"
RecordZeros == <<42, 48, 48, 48, 48, 48, 48, 48, 48, 48, 48, 48, 48, 48, 48,
                 59, 10>>

\* C13: for each buffer processed the records are exactly one per slot
\* whose first byte has bit 0 set, in ascending slot order, and the frame
\* counter increases by exactly their number; a slot whose first byte has
\* bit 0 clear yields no record and no counter change; a buffer of invalid
\* slots yields no record; the all-zero buffer with messages[0] = 0x01
\* yields the single record "*00000000000000;\n".
C13_RecordsPerBuffer ==
  /\ message_count = countAtRead + Cardinality(Built)
  /\ walk # <<>> =>
        /\ Len(LastStep.out) = IF Byte(messages, LastStep.off) % 2 = 1
                                 THEN 1 ELSE 0
        /\ Len(bufSent) = IF remote THEN Cardinality(Built) ELSE 0
  /\ WalkDone =>
        /\ {walk[j].off : j \in Built}
             = {n * SlotWidth : n \in ValidSlots(messages)}
        /\ \A j, k \in Built : j < k => walk[j].off < walk[k].off
        /\ remote => \A n \in 1..Len(bufSent) :
                        bufSent[n] = walk[NthBuilt(n)].out[1]
        /\ ValidSlots(messages) = {} => Built = {} /\ bufSent = <<>>
        /\ (\A idx \in 0..(BufLen - 1) :
               Byte(messages, idx) = IF idx = 0 THEN 1 ELSE 0)
             => /\ Built = {1}
                /\ walk[1].out = <<RecordZeros>>
                /\ message_count = countAtRead + 1

\* a buffer with a valid slot, then a slot of non-zero bytes whose first
\* byte is even, then a valid slot has been processed and both records sent
C13_Witness ==
  /\ WalkDone
  /\ remote
  /\ Len(bufSent) = 2
  /\ Byte(messages, SlotWidth) # 0
  /\ walk[2].out = <<>>
  /\ message_count = countAtRead + 2

(* ---------------------------------------------------------------------- *)
(* Acquisition and delivery                                                 *)
(* ---------------------------------------------------------------------- *)
\* C14: acquisition is never blocked by delivery: while the process lives,
\* the producer's next step (the iterations up to and including a send, the
\* return to the top of the loop, the next hardware read) can always be
\* taken, however many records are unwritten and wherever the consumer is.
C14_NeverBlocked ==
  ~Exited =>
     /\ prodPc = "scan" => ENABLED Scan
     /\ prodPc = "sync_rx" => ENABLED SyncRx
     /\ (prodPc = "loop_top" /\ reads < MaxReads) => ENABLED LoopTop

\* the producer is about to start its next hardware read while a record is
\* queued and the consumer is inside stream.write with another
C14_Witness ==
  /\ prodPc = "sync_rx"
  /\ reads >= 1
  /\ chan # <<>>
  /\ mainPc = "write"
  /\ ~Exited

(* ---------------------------------------------------------------------- *)
(* Start-up failures                                                        *)
(* ---------------------------------------------------------------------- *)
\* C15: configuration errors are fatal before acquisition begins: when
\* TcpStream::connect fails the process has ended with produce never
\* spawned, the device never opened and no read issued; when the device
\* rejects a setting produce has ended before its first hardware read; and
\* the connection is opened at most once per run.
C15_StartupFatal ==
  /\ connects <= 1
  /\ ~remote => connects = 0
  /\ stream = "Some" => connects = 1
  /\ mainFailure = "connect" =>
        /\ Exited
        /\ prodPc = "unspawned"
        /\ hwLog = <<>>
        /\ reads = 0
  /\ prodFailure = "configure" =>
        /\ prodPc = "panicked"
        /\ reads = 0
        /\ Count(hwLog, "sync_rx") = 0
        /\ Count(hwLog, "enable_module_true") = 0
        /\ sentLog = <<>>

\* the device has rejected a setting in a run whose connection was opened,
\* and main has returned
C15_Witness ==
  /\ prodFailure = "configure"
  /\ remote
  /\ connects = 1
  /\ mainPc = "returned"

(* ---------------------------------------------------------------------- *)
(* Delivery of received records                                             *)
(* ---------------------------------------------------------------------- *)
\* C16: every record main receives is passed to stream.write exactly once:
\* whenever a record is in the channel or in main's hand, remote is enabled
\* and the connection exists; a receive always leads to the write of the
\* record received; the write position is left only by the write call on
\* that record; and no record is written twice.
C16_WrittenOnce ==
  /\ []((chan # <<>> \/ mainPc = "write") => (remote /\ stream = "Some"))
  /\ [](\A j, k \in 1..Len(writeLog) :
           j < k => writeLog[j].src # writeLog[k].src)
  /\ [][/\ Len(chan') < Len(chan) =>
              /\ mainPc = "recv"
              /\ mainPc' = "write"
              /\ a' = Head(chan)
              /\ chan' = Tail(chan)
        /\ (mainPc = "write" /\ mainPc' # "write") =>
              writeLog' = Append(writeLog, a)
        /\ writeLog' # writeLog =>
              /\ mainPc = "write"
              /\ mainPc' # "write"
              /\ writeLog' = Append(writeLog, a)]_vars

\* main has written two records and holds a third it has just received,
\* with more queued
C16_Witness ==
  /\ Len(writeLog) >= 2
  /\ mainPc = "write"
  /\ a # NoRec
  /\ chan # <<>>

(* ---------------------------------------------------------------------- *)
(* Flush after write                                                        *)
(* ---------------------------------------------------------------------- *)
\* C17: after every write that does not fail, a short one included, main
\* flushes the stream before it receives the next record: every record
\* written has been flushed except the one just written, main leaves a
\* successful write only for the flush, and it takes a record from the
\* channel only when every record written has been flushed.
C17_FlushBeforeNext ==
  /\ [](Len(writeLog) = flushes
           + (IF mainPc = "flush" \/ mainFailure = "write" THEN 1 ELSE 0))
  /\ [][/\ (mainPc = "write" /\ mainPc' # "write" /\ mainFailure' = "none")
              => mainPc' = "flush"
        /\ (mainPc = "flush" /\ mainPc' # "flush")
              => flushes' = flushes + 1
        /\ Len(chan') < Len(chan) => flushes = Len(writeLog)]_vars

\* after a short write and two flushes main is about to write a third
\* record
C17_Witness ==
  /\ flushes >= 2
  /\ shortWrites >= 1
  /\ Len(writeLog) = flushes
  /\ mainPc = "write"

(* ---------------------------------------------------------------------- *)
(* Buffer indices                                                           *)
(* ---------------------------------------------------------------------- *)
\* C18: every index of messages an iteration reads lies inside its slot and
\* inside the 4096-byte buffer; the largest index read for the slot at i is
\* i + 15 (a 14-byte frame), which for the last slot, 4080, is 4095; no
\* byte of the next slot or beyond the buffer is read.
C18_IndicesInSlot ==
  walk # <<>> =>
     LET off == LastStep.off
     IN  /\ \A x \in LastStep.idx :
               /\ off <= x /\ x <= off + SlotWidth - 1
               /\ 0 <= x /\ x <= BufLen - 1
         /\ off \in LastStep.idx
         /\ LastStep.out = <<>> => LastStep.idx = {off}
         /\ LastStep.out # <<>> =>
               /\ off + 2 \in LastStep.idx
               /\ off + 1 \notin LastStep.idx
               /\ FrameLen(LastStep.out[1]) = LongLen
                    <=> off + SlotWidth - 1 \in LastStep.idx
         /\ off <= LastSlot

\* the iteration over the last slot has read messages[4095]
C18_Witness ==
  /\ walk # <<>>
  /\ LastStep.off = 4080
  /\ 4095 \in LastStep.idx
  /\ WalkDone

(* ---------------------------------------------------------------------- *)
(* Slots examined                                                           *)
(* ---------------------------------------------------------------------- *)
\* C19: each cycle examines exactly 4096 / 16 = 256 slots, at the offsets
\* 0, 16, .., 4080 in strictly ascending order, each exactly once.
C19_AllSlotsOnce ==
  /\ \A j \in 1..Len(walk) : walk[j].off = (j - 1) * 16
  /\ Len(walk) <= 256
  /\ slotsScanned = Len(walk)
  /\ WalkDone <=> Len(walk) = 256
  /\ ~WalkDone => i = Len(walk) * 16
  /\ WalkDone => /\ {walk[j].off : j \in 1..Len(walk)}
                      = {o \in 0..4095 : o % 16 = 0}
                 /\ LastStep.off = 4080

\* the loop has ended after 256 iterations, the last one at offset 4080
C19_Witness ==
  /\ WalkDone
  /\ Len(walk) = 256
  /\ walk[1].off = 0
  /\ walk[256].off = 4080

(* ---------------------------------------------------------------------- *)
(* Slot locality                                                            *)
(* ---------------------------------------------------------------------- *)
\* the two buffers hold the same 16 bytes in [off, off + 16)
SameSlot(b1, b2, off) ==
  \A k \in 0..(SlotWidth - 1) : Byte(b1, off + k) = Byte(b2, off + k)

\* C20: what a slot yields depends only on its own 16 bytes: for two
\* buffers that agree on [i, i + 16), whatever the other bytes are, the
\* slot at i yields no record in both or the identical record in both.
C20_SlotLocal ==
  walk # <<>> =>
     \A other \in WalkBuffers :
        SameSlot(other, messages, LastStep.off)
           => SlotRecords(other, LastStep.off) = LastStep.out

\* a slot has yielded a record, and another buffer holds the same slot
\* before a different successor
C20_Witness ==
  /\ walk # <<>>
  /\ LastStep.out # <<>>
  /\ \E other \in WalkBuffers :
        /\ SameSlot(other, messages, LastStep.off)
        /\ Byte(other, LastStep.off + SlotWidth)
              # Byte(messages, LastStep.off + SlotWidth)

(* ---------------------------------------------------------------------- *)
(* The run flag                                                             *)
(* ---------------------------------------------------------------------- *)
\* C21 as stated: the flag starts true and is written exactly once per run,
\* to false, by the Ctrl-C handler.
C21_AsStated ==
  /\ running <=> stores = 0
  /\ stores <= 1

\* C21 as amended: the flag starts true and is written only by the Ctrl-C
\* handler, which stores false each time the signal is delivered (never,
\* once or several times in a run); produce only loads it, at the top of
\* its loop, and main never accesses it.
C21_FlagWrites ==
  /\ [](running <=> stores = 0)
  /\ [][/\ running' # running =>
              (running /\ ~running' /\ stores' = stores + 1)
        /\ stores' # stores =>
              /\ stores' = stores + 1
              /\ ~running'
              /\ UNCHANGED <<mainPc, prodPc, flagReads>>
        /\ flagReads' # flagReads =>
              /\ prodPc = "loop_top"
              /\ flagReads' = flagReads + 1
              /\ running' = running
        /\ (mainPc' # mainPc \/ prodPc' # prodPc) => running' = running
        /\ mainPc' # mainPc => flagReads' = flagReads]_vars

\* the handler has stored false twice and produce has loaded the flag twice
C21_Witness ==
  /\ stores = 2
  /\ ~running
  /\ flagReads >= 2

(* ---------------------------------------------------------------------- *)
(* The buffer between two reads                                             *)
(* ---------------------------------------------------------------------- *)
\* C22: extraction never modifies the sample buffer: the only step that
\* changes messages is the hardware read; scanning, rendering, sending and
\* counting leave it as the read left it, and no step of main touches it.
C22_BufferReadOnly ==
  [][/\ messages' # messages =>
           /\ prodPc = "sync_rx"
           /\ reads' = reads + 1
           /\ mainPc' = mainPc
     /\ prodPc = "scan" => messages' = messages
     /\ (sentLog' # sentLog \/ message_count' # message_count)
           => messages' = messages
     /\ mainPc' # mainPc => messages' = messages]_vars

\* the second buffer has been scanned to its end and its records sent, and
\* it still holds what the read left in it
C22_Witness ==
  /\ reads = 2
  /\ prodPc = "loop_top"
  /\ bufSent # <<>>
  /\ message_count > countAtRead
  /\ messages \in Bursts
  /\ bufSent = Extract(messages)

(* ---------------------------------------------------------------------- *)
(* Extraction repeated on the same buffer                                   *)
(* ---------------------------------------------------------------------- *)
\* the records produce sent from its first buffer
FirstPass == Recs(SubSeq(sentLog, 1, Len(bufSent)))

Decode(rec) == [k \in 1..FrameLen(rec) |-> RecByte(rec, k - 1)]

\* the first len bytes of the frame of the slot at off
FrameBytes(buf, off, len) == [k \in 1..len |-> Byte(buf, off + 1 + k)]

\* byte values that differ from b in the low digit, in the high digit
Others(b) == {(b + 1) % 256, (b + 16) % 256}

\* C24: hex rendering is lossless: every byte of the slot in hand (every
\* byte value, over the frames rendered) renders as two lowercase hex
\* characters that decode to it, so for every frame of 7 or 14 bytes the
\* characters between '*' and ';' of its record, decoded two at a time, are
\* the frame's bytes exactly, and a frame of the same length that differs in
\* a byte renders to a different record.
C24_RoundTrip ==
  /\ \A b \in {Byte(messages, i + 1 + p) : p \in 1..LongLen} :
        /\ Len(Hex02(b)) = 2
        /\ Hex02(b)[1] \in LowerHex /\ Hex02(b)[2] \in LowerHex
        /\ 16 * HexVal(Hex02(b)[1]) + HexVal(Hex02(b)[2]) = b
  /\ (walk # <<>> /\ LastStep.out # <<>>) =>
        LET rec == LastStep.out[1]
            off == LastStep.off
            len == FrameEnd(messages, off)
        IN  /\ Len(rec) = 3 + 2 * len
            /\ \A c \in 2..(Len(rec) - 2) : rec[c] \in LowerHex
            /\ Decode(rec) = FrameBytes(messages, off, len)
            /\ \A p \in 1..len : \A v \in Others(Byte(messages, off + 1 + p)) :
                  LET other == (off + 1 + p :> v) @@ messages
                  IN  FrameEnd(other, off) = len
                         => AsciiBuf(other, off) # rec

\* a 14-byte frame holding a byte below 0x10 and a byte above 0x9f has been
\* rendered
C24_Witness ==
  /\ WalkDone
  /\ LastStep.out # <<>>
  /\ FrameLen(LastStep.out[1]) = LongLen
  /\ \E p \in 1..LongLen : Byte(messages, LastStep.off + 1 + p) < 16
  /\ \E p \in 1..LongLen : Byte(messages, LastStep.off + 1 + p) > 159
  /\ Decode(LastStep.out[1]) = FrameBytes(messages, LastStep.off, LongLen)

(* ---------------------------------------------------------------------- *)
(* Exit of main and device shutdown                                         *)
(* ---------------------------------------------------------------------- *)
\* produce has left its loop on a false flag
Cancelled ==
  \/ prodPc \in {"disable", "close", "returned"}
  \/ prodFailure = "enable_module_false"

\* C25 as stated: main's loop ends through rx.recv() failing only when the
\* channel is empty and produce has finished, and on the cancellation path
\* the process never exits before RX streaming has been disabled and the
\* device closed.
C25_AsStated ==
  /\ mainPc = "returned" => (chan = <<>> /\ SenderDropped)
  /\ (Exited /\ Cancelled) => AfterLoop = <<"enable_module_false", "close">>

\* C25 as amended: main returns only from an rx.recv() that failed on an
\* empty channel after produce ended; on the cancellation path main never
\* returns before produce has disabled RX streaming and closed the device,
\* except that a failed enable_module(RX, false) makes produce panic with
\* the device not closed.  (A panic of main ends the process wherever
\* produce stands.)
C25_ExitAfterShutdown ==
  /\ [](mainPc = "returned" => (chan = <<>> /\ SenderDropped))
  /\ []((mainPc = "returned" /\ Cancelled) =>
          \/ /\ prodPc = "returned"
             /\ AfterLoop = <<"enable_module_false", "close">>
          \/ /\ prodFailure = "enable_module_false"
             /\ AfterLoop = <<"enable_module_false">>)
  /\ [][(mainPc' = "returned" /\ mainPc # "returned") =>
           /\ mainPc = "recv"
           /\ chan = <<>>
           /\ SenderDropped]_vars

\* main has returned after a cancelled run in which records were written
\* and the device was shut down
C25_Witness ==
  /\ mainPc = "returned"
  /\ prodPc = "returned"
  /\ stores >= 1
  /\ reads >= 1
  /\ writeLog # <<>>
  /\ hwLog[Len(hwLog)] = "close"

(* ---------------------------------------------------------------------- *)
(* Reads after the flag changed                                             *)
(* ---------------------------------------------------------------------- *)
\* C26: after the flag has been set to false produce starts at most one
\* more hardware read, and only the one whose flag check had passed before
\* the store: it never starts two.
C26_OneMoreRead ==
  /\ [](running => readsAtStop = 0)
  /\ [](~running =>
          /\ reads <= readsAtStop + 1
          /\ reads = readsAtStop + 1 => stopPhase = "sync_rx")
  /\ [][(~running /\ reads' # reads) =>
           /\ prodPc = "sync_rx"
           /\ stopPhase = "sync_rx"
           /\ reads = readsAtStop
           /\ reads' = reads + 1]_vars

\* the flag was cleared between the second flag check and the second read;
\* that read was made, and produce then shut the device down
C26_Witness ==
  /\ ~running
  /\ readsAtStop = 1
  /\ reads = 2
  /\ stopPhase = "sync_rx"
  /\ prodPc = "returned"

(* ---------------------------------------------------------------------- *)
(* Shutdown only on cancellation                                            *)
(* ---------------------------------------------------------------------- *)
\* main panicked on a failed stream.write or stream.flush
NetFailed == mainFailure \in {"write", "flush"}

\* C27 as stated: RX streaming is disabled and the device closed only when
\* the loop was left on a false flag; when the run ends on a failed
\* hardware read, or on a failed write or flush, the process ends with
\* streaming still enabled and the device not closed.
C27_AsStated ==
  /\ Count(hwLog, "enable_module_false") > 0 => (~running /\ Cancelled)
  /\ prodFailure = "sync_rx" => AfterLoop = <<>>
  /\ NetFailed => /\ Count(hwLog, "enable_module_false") = 0
                  /\ hwLog[Len(hwLog)] # "close"

\* C27 as amended: RX streaming is disabled and the device closed only when
\* the loop was left on a false flag; when the run ends on a failed
\* hardware read the process ends with streaming enabled and the device not
\* closed; a failed write or flush ends the process at once, with no device
\* call after it, so streaming is still enabled and the device not closed
\* unless produce had already shut it down on the cancellation path.
C27_ShutdownOnlyOnCancel ==
  /\ [](Count(hwLog, "enable_module_false") > 0 => (~running /\ Cancelled))
  /\ [](prodFailure = "sync_rx" => AfterLoop = <<>>)
  /\ []((NetFailed /\ ~Cancelled) =>
           /\ Count(hwLog, "enable_module_false") = 0
           /\ hwLog[Len(hwLog)] # "close")
  /\ [][/\ Exited => hwLog' = hwLog
        /\ Count(hwLog', "enable_module_false")
              # Count(hwLog, "enable_module_false")
              => (prodPc = "disable" /\ ~running)
        /\ (hwLog' # hwLog /\ hwLog'[Len(hwLog')] = "close"
              /\ prodPc # "reopen") => prodPc = "close"]_vars

\* stream.flush failed while produce was acquiring: the process has ended
\* with RX streaming enabled
C27_Witness ==
  /\ mainFailure = "flush"
  /\ prodPc \in {"loop_top", "sync_rx", "scan"}
  /\ reads >= 1
  /\ Count(hwLog, "enable_module_true") = 1
  /\ Count(hwLog, "enable_module_false") = 0

(* ---------------------------------------------------------------------- *)
(* Queued records after a failed read                                       *)
(* ---------------------------------------------------------------------- *)
\* C28 as stated: when produce has ended on a failed hardware read, the
\* process terminates only after every record sent has been written.
C28_AsStated ==
  (Exited /\ prodFailure = "sync_rx") => (chan = <<>> /\ writeLog = sentLog)

\* C28 as amended: when produce has ended on a failed hardware read, the
\* records it had sent are not lost: they stay queued in order, main goes
\* on receiving and writing them, and it returns only when all of them have
\* been written; only a failure of stream.write or stream.flush during
\* that drain, which makes main panic, leaves records unwritten.
C28_DrainAfterReadError ==
  /\ []((prodFailure = "sync_rx" /\ mainFailure = "none") =>
           writeLog \o InHand \o chan = sentLog)
  /\ []((prodFailure = "sync_rx" /\ mainPc = "returned") =>
           (chan = <<>> /\ writeLog = sentLog))
  /\ [][prodFailure = "sync_rx" =>
           (chan' = chan \/ (chan # <<>> /\ chan' = Tail(chan)))]_vars
  /\ (prodFailure = "sync_rx") ~>
        (/\ Exited
         /\ mainFailure = "none" => (chan = <<>> /\ writeLog = sentLog))

\* the second read failed with both records of the first buffer still
\* unwritten; main wrote and flushed them and returned
C28_Witness ==
  /\ prodFailure = "sync_rx"
  /\ running
  /\ reads = 2
  /\ mainPc = "returned"
  /\ Len(writeLog) = 2
  /\ flushes = 2
  /\ writeLog = sentLog

(* ---------------------------------------------------------------------- *)
(* Monotonicity of the run flag                                             *)
(* ---------------------------------------------------------------------- *)
\* C29: the run flag is monotone: once false it is never true again,
\* however many times the signal is delivered, and once produce has left
\* its loop on a false flag it never issues a read or scans a slot again.
C29_FlagMonotone ==
  /\ [](stores >= 1 => ~running)
  /\ [][/\ ~running => ~running'
        /\ Cancelled =>
              /\ Cancelled'
              /\ reads' = reads
              /\ sentLog' = sentLog
              /\ prodPc' \notin {"loop_top", "sync_rx", "scan"}]_vars

\* the signal was delivered a second time after produce had left its loop
C29_Witness ==
  /\ stores = 2
  /\ ~running
  /\ prodPc = "disable"
  /\ stopPhase # "disable"
  /\ reads = 1

====
